---- MODULE Spec2Model ----
(***************************************************************************)
(* Model of word_frequency.py: the subtitle parsers (iter_srt_lines,       *)
(* iter_ass_lines), normalize_line, count_words, write_csv,                *)
(* build_output_path and main.                                             *)
(*                                                                         *)
(* A string is a sequence of one-character strings, <<"a", ",", "b">>.     *)
(* A document is a sequence of lines; a Counter is a function from words   *)
(* to counts.                                                              *)
(***************************************************************************)
EXTENDS Integers, Sequences, FiniteSets, TLC

VARIABLES
    pc,             \* position of the run
    doc,            \* the lines read from the file handle so far
    lines,          \* the parser's list `lines` / count_words' argument
    text_index,     \* iter_ass_lines: text_index (None or a position)
    field_count,    \* iter_ass_lines: field_count (None or a number)
    parts,          \* iter_ass_lines: parts of the last Dialogue line
    selected,       \* iter_ass_lines: text, as selected from parts
    li,             \* count_words: index of the line of the outer loop
    words,          \* count_words: tokens of that line not yet counted
    counts,         \* count_words: the Counter
    shuffled,       \* the Counter count_words returns for a shuffled list
    csv,            \* write_csv: the rows written to the output file
    input_path,     \* main: args.input
    output_arg,     \* main: args.output
    output_path,    \* main: the result of build_output_path
    fs              \* the file system: what each path is

vars == <<pc, doc, lines, text_index, field_count, parts, selected, li, words,
          counts, shuffled, csv, input_path, output_arg, output_path, fs>>

assVars == <<text_index, field_count, parts, selected>>
countVars == <<li, words, counts>>
mainVars == <<input_path, output_arg, output_path, fs>>

\* None, for text_index and field_count (which are never negative).
None == -1
\* No path: args.output when the argument is left out.
NoPath == <<>>

SeqsUpTo(S, n) == UNION {[1..k -> S] : k \in 0..n}

Last(s) == s[Len(s)]

(***************************************************************************)
(* Characters and their classes (str.isalnum, str.isspace, str.isdigit,    *)
(* str.lower, restricted to the characters the model uses).                *)
(***************************************************************************)
LowerLetters == {"a", "b", "c", "d", "e", "f", "g", "h", "i", "j", "k",
                 "l", "m", "n", "o", "p", "q", "r", "s", "t", "u", "v",
                 "w", "x", "y", "z"}
LowerOf == ("A" :> "a") @@ ("B" :> "b") @@ ("C" :> "c") @@ ("D" :> "d") @@
           ("E" :> "e") @@ ("F" :> "f") @@ ("G" :> "g") @@ ("H" :> "h") @@
           ("I" :> "i") @@ ("J" :> "j") @@ ("K" :> "k") @@ ("L" :> "l") @@
           ("M" :> "m") @@ ("N" :> "n") @@ ("O" :> "o") @@ ("P" :> "p") @@
           ("Q" :> "q") @@ ("R" :> "r") @@ ("S" :> "s") @@ ("T" :> "t") @@
           ("U" :> "u") @@ ("V" :> "v") @@ ("W" :> "w") @@ ("X" :> "x") @@
           ("Y" :> "y") @@ ("Z" :> "z")
UpperLetters == DOMAIN LowerOf
Digits == {"0", "1", "2", "3", "4", "5", "6", "7", "8", "9"}
Spaces == {" ", "\t"}
\* ord: the code points of the characters words are made of.
Ord == ("0" :> 48) @@ ("1" :> 49) @@ ("2" :> 50) @@ ("3" :> 51) @@
       ("4" :> 52) @@ ("5" :> 53) @@ ("6" :> 54) @@ ("7" :> 55) @@
       ("8" :> 56) @@ ("9" :> 57) @@ ("_" :> 95) @@ ("a" :> 97) @@
       ("b" :> 98) @@ ("c" :> 99) @@ ("d" :> 100) @@ ("e" :> 101) @@
       ("f" :> 102) @@ ("g" :> 103) @@ ("h" :> 104) @@ ("i" :> 105) @@
       ("j" :> 106) @@ ("k" :> 107) @@ ("l" :> 108) @@ ("m" :> 109) @@
       ("n" :> 110) @@ ("o" :> 111) @@ ("p" :> 112) @@ ("q" :> 113) @@
       ("r" :> 114) @@ ("s" :> 115) @@ ("t" :> 116) @@ ("u" :> 117) @@
       ("v" :> 118) @@ ("w" :> 119) @@ ("x" :> 120) @@ ("y" :> 121) @@
       ("z" :> 122)

IsAlnum(c) == c \in LowerLetters \cup UpperLetters \cup Digits
IsSpace(c) == c \in Spaces
IsDigit(c) == c \in Digits
Lower(c) == IF c \in DOMAIN LowerOf THEN LowerOf[c] ELSE c

\* BIDI_MARKS: the characters str.translate deletes.
BIDI_MARKS == {"u200e", "u200f", "u202a", "u202b", "u202c", "u202d",
               "u202e", "ufeff"}

\* PUNCT_RE = [^\w\s]: \w is an alphanumeric character or the underscore.
WordChar(c) == IsAlnum(c) \/ c = "_"
PUNCT_RE(c) == ~WordChar(c) /\ ~IsSpace(c)

RECURSIVE Translate(_)
Translate(s) ==
    IF s = <<>> THEN <<>>
    ELSE IF Head(s) \in BIDI_MARKS THEN Translate(Tail(s))
    ELSE <<Head(s)>> \o Translate(Tail(s))

\* normalize_line: line.translate(BIDI_MARKS).lower(), then PUNCT_RE.sub(" ").
normalize_line(line) ==
    LET cleaned == [i \in 1..Len(Translate(line)) |-> Lower(Translate(line)[i])]
    IN [i \in 1..Len(cleaned) |-> IF PUNCT_RE(cleaned[i]) THEN " " ELSE cleaned[i]]

\* str.split(): the maximal runs of non-whitespace characters, in order.
RECURSIVE SplitFrom(_, _, _)
SplitFrom(s, i, cur) ==
    IF i > Len(s) THEN (IF cur = <<>> THEN <<>> ELSE <<cur>>)
    ELSE IF IsSpace(s[i])
         THEN (IF cur = <<>> THEN <<>> ELSE <<cur>>) \o SplitFrom(s, i + 1, <<>>)
         ELSE SplitFrom(s, i + 1, Append(cur, s[i]))

split(s) == SplitFrom(s, 1, <<>>)

(***************************************************************************)
(* count_words                                                             *)
(***************************************************************************)
EmptyCounter == [w \in {} |-> 0]

\* counts[word] += 1 with a count that is overwritten instead of incremented.
IncrementOverwrites(c, word) ==
    IF word \in DOMAIN c THEN [c EXCEPT ![word] = 1] ELSE c @@ (word :> 1)

\* counts[word] += 1 on a Counter (a missing key counts as 0).
Increment(c, word) ==
    IF word \in DOMAIN c THEN [c EXCEPT ![word] = @ + 1] ELSE c @@ (word :> 1)

RECURSIVE CountTokens(_, _)
CountTokens(c, ws) ==
    IF ws = <<>> THEN c ELSE CountTokens(Increment(c, Head(ws)), Tail(ws))

RECURSIVE CountLines(_, _)
CountLines(c, ls) ==
    IF ls = <<>> THEN c
    ELSE CountLines(CountTokens(c, split(normalize_line(Head(ls)))), Tail(ls))

\* count_words with the Counter created inside the loop over the lines.
count_words_reset(ls) ==
    IF ls = <<>> THEN EmptyCounter
    ELSE CountTokens(EmptyCounter, split(normalize_line(Last(ls))))

\* count_words(lines), as one call.
count_words(ls) == CountLines(EmptyCounter, ls)

(***************************************************************************)
(* write_csv                                                               *)
(***************************************************************************)
Chr(text) == <<text>>
HeaderRow == <<<<"w", "o", "r", "d">>, <<"c", "o", "u", "n", "t">>>>

DecimalDigits == <<"0", "1", "2", "3", "4", "5", "6", "7", "8", "9">>

\* str(n), as csv.writer formats a count.
RECURSIVE str(_)
str(n) ==
    IF n < 10 THEN <<DecimalDigits[n + 1]>>
    ELSE str(n \div 10) \o <<DecimalDigits[(n % 10) + 1]>>

\* Python's < on str: by code point, a proper prefix first.
RECURSIVE StrLess(_, _)
StrLess(a, b) ==
    IF b = <<>> THEN FALSE
    ELSE IF a = <<>> THEN TRUE
    ELSE IF Ord[Head(a)] # Ord[Head(b)] THEN Ord[Head(a)] < Ord[Head(b)]
    ELSE StrLess(Tail(a), Tail(b))

\* Python's < on the key tuples.
KeyLess(k1, k2) == k1[1] < k2[1] \/ (k1[1] = k2[1] /\ StrLess(k1[2], k2[2]))

\* The sort key with the count not negated: ascending counts.
sort_key_ascending(item) == <<item[2], item[1]>>

\* key=lambda item: (-item[1], item[0])
sort_key(item) == <<-item[2], item[1]>>

items(c) == {<<w, c[w]>> : w \in DOMAIN c}

\* sorted(S, key=sort_key): the keys of distinct items differ.
RECURSIVE sorted(_)
sorted(S) ==
    IF S = {} THEN <<>>
    ELSE LET first == CHOOSE x \in S :
                         \A y \in S \ {x} : KeyLess(sort_key(x), sort_key(y))
         IN <<first>> \o sorted(S \ {first})

\* The rows write_csv writes: the header row, then writerows(sorted_items).
write_csv(c) ==
    LET sorted_items == sorted(items(c))
    IN <<HeaderRow>> \o [i \in 1..Len(sorted_items) |->
                            <<sorted_items[i][1], str(sorted_items[i][2])>>]

(***************************************************************************)
(* Lists of lines of bounded size                                          *)
(***************************************************************************)
Sep == "\n"

\* The lines of a text: cut at every separator.
RECURSIVE Cut(_, _)
Cut(flat, cur) ==
    IF flat = <<>> THEN <<cur>>
    ELSE IF Head(flat) = Sep THEN <<cur>> \o Cut(Tail(flat), <<>>)
    ELSE Cut(Tail(flat), Append(cur, Head(flat)))

\* Every list of lines over `chars` that fits in n characters,
\* separators counted.
LineLists(chars, n) ==
    {<<>>} \cup {Cut(flat, <<>>) : flat \in SeqsUpTo(chars \cup {Sep}, n)}

(***************************************************************************)
(* The run of count_words and write_csv on a list of lines                 *)
(* (main, lines 153-154).                                                  *)
(***************************************************************************)
MaxCountChars == 5
CountChars == {"a", "B", "_", " ", "'"}

NoFiles == [input |-> "missing", output |-> "missing", content |-> <<>>, created |-> {}]

Idle ==
    /\ doc = <<>>
    /\ text_index = None
    /\ field_count = None
    /\ parts = <<>>
    /\ selected = <<>>
    /\ li = 0
    /\ words = <<>>
    /\ counts = EmptyCounter
    /\ shuffled = [order |-> <<>>, counts |-> EmptyCounter]
    /\ csv = <<>>
    /\ input_path = NoPath
    /\ output_arg = NoPath
    /\ output_path = NoPath
    /\ fs = NoFiles

InitCount ==
    /\ Idle
    /\ pc = "count"
    /\ lines \in LineLists(CountChars, MaxCountChars)

\* for line in lines: normalized = normalize_line(line); normalized.split()
NextLine ==
    /\ pc = "count"
    /\ words = <<>>
    /\ li < Len(lines)
    /\ li' = li + 1
    /\ words' = split(normalize_line(lines[li + 1]))
    /\ UNCHANGED <<pc, doc, lines, assVars, counts, shuffled, csv, mainVars>>

\* for word in ...: counts[word] += 1
CountWord ==
    /\ pc = "count"
    /\ words # <<>>
    /\ counts' = Increment(counts, Head(words))
    /\ words' = Tail(words)
    /\ UNCHANGED <<pc, doc, lines, assVars, li, shuffled, csv, mainVars>>

\* return counts
ReturnCounts ==
    /\ pc = "count"
    /\ words = <<>>
    /\ li = Len(lines)
    /\ pc' = "counted"
    /\ UNCHANGED <<doc, lines, assVars, countVars, shuffled, csv, mainVars>>

\* write_csv(counts, output_path)
WriteCsv ==
    /\ pc = "counted"
    /\ csv' = write_csv(counts)
    /\ pc' = "written"
    /\ UNCHANGED <<doc, lines, assVars, countVars, shuffled, mainVars>>

Permuted(ls, p) == [i \in 1..Len(ls) |-> ls[p[i]]]

\* count_words on the same lines in another order.
Shuffle ==
    /\ pc = "counted"
    /\ \E p \in Permutations(1..Len(lines)) :
           shuffled' = [order |-> Permuted(lines, p),
                        counts |-> count_words(Permuted(lines, p))]
    /\ pc' = "shuffled"
    /\ UNCHANGED <<doc, lines, assVars, countVars, csv, mainVars>>

NextCount == NextLine \/ CountWord \/ ReturnCounts \/ WriteCsv \/ Shuffle

SpecCount == InitCount /\ [][NextCount]_vars

(***************************************************************************)
(* Claims about count_words and write_csv                                  *)
(***************************************************************************)
RECURSIVE SumCounts(_)
SumCounts(c) ==
    IF DOMAIN c = {} THEN 0
    ELSE LET w == CHOOSE x \in DOMAIN c : TRUE
         IN c[w] + SumCounts([x \in DOMAIN c \ {w} |-> c[x]])

\* The whitespace-delimited tokens of a string: one starts wherever a
\* non-whitespace character has no non-whitespace character before it.
NumTokens(s) ==
    Cardinality({i \in 1..Len(s) :
                    ~IsSpace(s[i]) /\ (i = 1 \/ IsSpace(s[i - 1]))})

RECURSIVE TokensOfFirst(_, _)
TokensOfFirst(ls, n) ==
    IF n = 0 THEN 0
    ELSE NumTokens(normalize_line(ls[n])) + TokensOfFirst(ls, n - 1)

\* The tokens count_words has consumed: those of the lines the outer loop
\* has reached, less those of the current line still to count.
TokensConsumed == TokensOfFirst(lines, li) - Len(words)

\* C2: after every token consumed, the counts sum to the number of tokens
\* consumed so far from the normalized lines; every key is a non-empty
\* string without whitespace and every count is at least 1.
C2_SumInvariant ==
    pc \in {"count", "counted", "written", "shuffled"} =>
        /\ SumCounts(counts) = TokensConsumed
        /\ \A w \in DOMAIN counts :
               /\ w # <<>>
               /\ \A i \in 1..Len(w) : ~IsSpace(w[i])
               /\ counts[w] >= 1

\* count_words has returned a table of two words, one of them counted twice.
C2_Witness ==
    /\ pc = "counted"
    /\ Cardinality(DOMAIN counts) = 2
    /\ \E w \in DOMAIN counts : counts[w] = 2

\* C3: count_words returns the same table for every permutation of the
\* list of lines as for the list itself.
C3_OrderIndependent ==
    pc = "shuffled" => shuffled.counts = counts

\* count_words has run on two different lines in both orders.
C3_Witness ==
    /\ pc = "shuffled"
    /\ Len(lines) = 2
    /\ DOMAIN count_words(<<lines[1]>>) # DOMAIN count_words(<<lines[2]>>)
    /\ shuffled.order = <<lines[2], lines[1]>>

\* Code-point order on words: at the first position where they differ the
\* left one has the smaller code point, or the left one is a proper prefix.
CodePointLess(a, b) ==
    \E k \in 1..(Len(a) + 1) :
        /\ k <= Len(b)
        /\ \A j \in 1..(k - 1) : a[j] = b[j]
        /\ k = Len(a) + 1 \/ Ord[a[k]] < Ord[b[k]]

\* C1: after the header row, the rows write_csv emits are exactly the
\* table's (word, count) pairs, each once, by count descending and, among
\* equal counts, by word ascending in code-point order.
C1_ExportOrder ==
    pc = "written" =>
        /\ Len(csv) = 1 + Cardinality(DOMAIN counts)
        /\ csv[1] = HeaderRow
        /\ \A i \in 2..Len(csv) :
               /\ csv[i][1] \in DOMAIN counts
               /\ csv[i][2] = str(counts[csv[i][1]])
        /\ \A w \in DOMAIN counts :
               Cardinality({i \in 2..Len(csv) : csv[i][1] = w}) = 1
        /\ \A i \in 2..(Len(csv) - 1) :
               LET w1 == csv[i][1]
                   w2 == csv[i + 1][1]
               IN \/ counts[w1] > counts[w2]
                  \/ counts[w1] = counts[w2] /\ CodePointLess(w1, w2)

\* A table was written whose more frequent word is the later one in
\* code-point order.
C1_Witness ==
    /\ pc = "written"
    /\ Len(csv) = 3
    /\ counts[csv[2][1]] > counts[csv[3][1]]
    /\ CodePointLess(csv[3][1], csv[2][1])

\* C10: every character normalize_line returns is alphanumeric or
\* whitespace, so no token count_words counts contains a non-alphanumeric
\* character.
C10_OnlyAlnumAndSpace ==
    /\ \A n \in 1..li :
           \A i \in 1..Len(normalize_line(lines[n])) :
               \/ IsAlnum(normalize_line(lines[n])[i])
               \/ IsSpace(normalize_line(lines[n])[i])
    /\ \A w \in DOMAIN counts : \A i \in 1..Len(w) : IsAlnum(w[i])

(***************************************************************************)
(* str methods the parsers use                                             *)
(***************************************************************************)
RECURSIVE lstrip(_)
lstrip(s) ==
    IF s # <<>> /\ IsSpace(Head(s)) THEN lstrip(Tail(s)) ELSE s

RECURSIVE rstrip(_)
rstrip(s) ==
    IF s # <<>> /\ IsSpace(Last(s)) THEN rstrip(SubSeq(s, 1, Len(s) - 1)) ELSE s

strip(s) == lstrip(rstrip(s))

startswith(s, prefix) ==
    Len(s) >= Len(prefix) /\ SubSeq(s, 1, Len(prefix)) = prefix

\* s.split(sep, maxsplit) for a one-character sep; maxsplit -1 is no limit.
RECURSIVE SplitSep(_, _, _, _)
SplitSep(s, sep, maxsplit, cur) ==
    IF s = <<>> THEN <<cur>>
    ELSE IF Head(s) = sep /\ maxsplit # 0
         THEN <<cur>> \o SplitSep(Tail(s), sep, maxsplit - 1, <<>>)
         ELSE SplitSep(Tail(s), sep, maxsplit, Append(cur, Head(s)))

\* line.split(":", 1)[1], for a line that holds a colon.
AfterColon(line) == SplitSep(line, ":", 1, <<>>)[2]

\* s.replace(old, " ") for a two-character old: left to right, without
\* overlap.
RECURSIVE replace(_, _)
replace(s, old) ==
    IF Len(s) < 2 THEN s
    ELSE IF SubSeq(s, 1, 2) = old THEN <<" ">> \o replace(SubSeq(s, 3, Len(s)), old)
    ELSE <<Head(s)>> \o replace(Tail(s), old)

(***************************************************************************)
(* iter_ass_lines                                                          *)
(***************************************************************************)
FormatPrefix == <<"F", "o", "r", "m", "a", "t", ":">>
DialoguePrefix == <<"D", "i", "a", "l", "o", "g", "u", "e", ":">>
TextField == <<"T", "e", "x", "t">>

\* ASS_OVERRIDE_RE.sub("", text): \{.*?\} from left to right, each match
\* from a "{" to the first "}" after it (a line holds no newline).
RECURSIVE ASS_OVERRIDE_RE_sub(_)
ASS_OVERRIDE_RE_sub(text) ==
    IF text = <<>> THEN <<>>
    ELSE IF Head(text) = "{" /\ \E i \in 2..Len(text) : text[i] = "}"
         THEN LET close == CHOOSE i \in 2..Len(text) :
                               /\ text[i] = "}"
                               /\ \A j \in 2..(i - 1) : text[j] # "}"
              IN ASS_OVERRIDE_RE_sub(SubSeq(text, close + 1, Len(text)))
         ELSE <<Head(text)>> \o ASS_OVERRIDE_RE_sub(Tail(text))

replace_escapes(text) ==
    replace(replace(replace(text, <<"\\", "N">>), <<"\\", "n">>), <<"\\", "h">>)

\* Lines 90-91 with the two steps in the other order.
strip_markup_escapes_first(text) == ASS_OVERRIDE_RE_sub(replace_escapes(text))

\* Lines 90-91: the override tags removed, then the escapes replaced.
strip_markup(text) == replace_escapes(ASS_OVERRIDE_RE_sub(text))

\* Line 71: the stripped field names of a Format line.
format_fields(line) ==
    LET raw == SplitSep(AfterColon(line), ",", -1, <<>>)
    IN [i \in 1..Len(raw) |-> strip(raw[i])]

\* fields.index("Text"): zero-based, the first occurrence.
index(fields, name) ==
    (CHOOSE i \in 1..Len(fields) :
         fields[i] = name /\ \A j \in 1..(i - 1) : fields[j] # name) - 1

\* The default ASS format has 10 fields: payload.split(",", 9).
DefaultMaxSplit == 9

\* The maxsplit of line 80 taken as field_count.
maxsplit_off_by_one(fc) ==
    IF fc # None /\ fc # 0 THEN fc ELSE DefaultMaxSplit

\* The maxsplit of lines 78-80 and 87.
maxsplit(fc) ==
    IF fc # None /\ fc # 0 THEN fc - 1 ELSE DefaultMaxSplit

\* Lines 80 and 87: the parts of a Dialogue payload.
split_payload(payload, fc) == SplitSep(payload, ",", maxsplit(fc), <<>>)

\* Lines 78-88: the text among the parts.
select_text(ps, ti, fc) ==
    IF fc # None /\ fc # 0 /\ ti # None /\ ti < Len(ps)
    THEN ps[ti + 1]
    ELSE ps[Len(ps)]

\* Lines 69-75: a Format line.
read_format(st, line) ==
    LET fields == format_fields(line)
    IN [st EXCEPT !.field_count = Len(fields),
                  !.text_index = IF \E i \in 1..Len(fields) : fields[i] = TextField
                                 THEN index(fields, TextField)
                                 ELSE @]

\* Lines 76-92: a Dialogue line.
read_dialogue(st, line) ==
    LET payload == lstrip(AfterColon(line))
        ps == split_payload(payload, st.field_count)
        text == select_text(ps, st.text_index, st.field_count)
    IN [st EXCEPT !.parts = ps,
                  !.selected = text,
                  !.lines = Append(@, strip_markup(text))]

\* Lines 65-92: the body of the loop, for one raw line.
ass_read(st, raw_line) ==
    LET line == strip(raw_line)
    IN IF line = <<>> THEN st
       ELSE IF startswith(line, FormatPrefix) THEN read_format(st, line)
       ELSE IF startswith(line, DialoguePrefix) THEN read_dialogue(st, line)
       ELSE st

\* Lines 61-63: the state before the loop.
AssStart ==
    [text_index |-> None, field_count |-> None, parts |-> <<>>,
     selected |-> <<>>, lines |-> <<>>]

RECURSIVE AssFold(_, _)
AssFold(st, content) ==
    IF content = <<>> THEN st
    ELSE AssFold(ass_read(st, Head(content)), Tail(content))

\* iter_ass_lines on a file of the given lines.
iter_ass_lines(content) == AssFold(AssStart, content).lines

(***************************************************************************)
(* The loop of iter_ass_lines, one raw line of the file per step           *)
(***************************************************************************)
AssState ==
    [text_index |-> text_index, field_count |-> field_count, parts |-> parts,
     selected |-> selected, lines |-> lines]

AssApply(raw_line) ==
    LET st == ass_read(AssState, raw_line)
    IN /\ text_index' = st.text_index
       /\ field_count' = st.field_count
       /\ parts' = st.parts
       /\ selected' = st.selected
       /\ lines' = st.lines
       /\ doc' = Append(doc, raw_line)
       /\ UNCHANGED <<pc, countVars, shuffled, csv, mainVars>>

IsFormatLine(raw_line) == startswith(strip(raw_line), FormatPrefix)
IsDialogueLine(raw_line) == startswith(strip(raw_line), DialoguePrefix)

\* if line.startswith("Format:")
AssFormat(raw_line) ==
    /\ pc = "ass"
    /\ IsFormatLine(raw_line)
    /\ AssApply(raw_line)

\* if line.startswith("Dialogue:")
AssDialogue(raw_line) ==
    /\ pc = "ass"
    /\ IsDialogueLine(raw_line)
    /\ AssApply(raw_line)

\* a blank line, or a line that is neither directive
AssSkip(raw_line) ==
    /\ pc = "ass"
    /\ ~IsFormatLine(raw_line)
    /\ ~IsDialogueLine(raw_line)
    /\ AssApply(raw_line)

\* the file has ended: return lines
AssReturn ==
    /\ pc = "ass"
    /\ pc' = "parsed"
    /\ UNCHANGED <<doc, lines, assVars, countVars, shuffled, csv, mainVars>>

InitAss ==
    /\ Idle
    /\ pc = "ass"
    /\ lines = <<>>

\* A Format line declaring the given fields, and a Dialogue line carrying
\* the given payload.
RECURSIVE JoinFields(_)
JoinFields(fields) ==
    IF Len(fields) = 1 THEN fields[1]
    ELSE fields[1] \o <<",", " ">> \o JoinFields(Tail(fields))

HeaderOf(fields) == FormatPrefix \o <<" ">> \o JoinFields(fields)
DialogueOf(payload) == DialoguePrefix \o <<" ">> \o payload

NameField == <<"N", "a", "m", "e">>
StartField == <<"S", "t", "a", "r", "t">>

(***************************************************************************)
(* Documents for the schema: Format lines with Text first, last, absent,   *)
(* Dialogue payloads of letters and commas, and payloads with as many and  *)
(* with more commas than the default split takes.                          *)
(***************************************************************************)
MaxAssLines == 3
MaxPayloadLen == 2

SchemaHeaders ==
    {HeaderOf(<<TextField, NameField>>), HeaderOf(<<NameField, TextField>>),
     HeaderOf(<<NameField, StartField>>), HeaderOf(<<NameField>>),
     HeaderOf(<<NameField, StartField, TextField>>)}

LongPayloads ==
    {[i \in 1..k |-> ","] \o <<"a">> : k \in {DefaultMaxSplit, DefaultMaxSplit + 2}}

SchemaLines ==
    SchemaHeaders
    \cup {DialogueOf(p) : p \in SeqsUpTo({"a", ","}, MaxPayloadLen) \cup LongPayloads}
    \cup {<<" ">>, <<";">>}

SchemaInput == IF Len(doc) < MaxAssLines THEN SchemaLines ELSE {}

NextAss ==
    \/ \E raw_line \in SchemaInput : AssFormat(raw_line)
    \/ \E raw_line \in SchemaInput : AssDialogue(raw_line)
    \/ \E raw_line \in SchemaInput : AssSkip(raw_line)
    \/ AssReturn

SpecAss == InitAss /\ [][NextAss]_vars

(***************************************************************************)
(* Documents for the markup: Dialogue texts of braces, backslashes and     *)
(* escape letters; a document weighs one per line plus its texts' lengths. *)
(***************************************************************************)
MaxMarkupWeight == 6
MarkupChars == {"{", "}", "\\", "N", "n", "h"}

MarkupLines(room) ==
    IF room < 1 THEN {}
    ELSE {HeaderOf(<<TextField>>), <<";">>}
         \cup {DialogueOf(t) : t \in SeqsUpTo(MarkupChars, room - 1)}

RECURSIVE MarkupWeight(_)
MarkupWeight(d) ==
    IF d = <<>> THEN 0
    ELSE MarkupWeight(Tail(d))
         + (IF IsDialogueLine(Head(d))
            THEN Len(Head(d)) - Len(DialoguePrefix)
            ELSE 1)

MarkupInput == MarkupLines(MaxMarkupWeight - MarkupWeight(doc))

NextAssText ==
    \/ \E raw_line \in MarkupInput : AssFormat(raw_line)
    \/ \E raw_line \in MarkupInput : AssDialogue(raw_line)
    \/ \E raw_line \in MarkupInput : AssSkip(raw_line)
    \/ AssReturn

SpecAssText == InitAss /\ [][NextAssText]_vars

(***************************************************************************)
(* Claims about iter_ass_lines                                             *)
(***************************************************************************)
HeaderPositions == {i \in 1..Len(doc) : IsFormatLine(doc[i])}

LastHeader ==
    strip(doc[CHOOSE i \in HeaderPositions : \A j \in HeaderPositions : j <= i])

\* C6: the schema in force (field count, recorded Text position or none)
\* is determined by the most recent Format line alone.
C6_LastHeaderWins ==
    pc \in {"ass", "parsed"} =>
        IF HeaderPositions = {}
        THEN field_count = None /\ text_index = None
        ELSE LET fields == format_fields(LastHeader)
             IN /\ field_count = Len(fields)
                /\ text_index = IF \E i \in 1..Len(fields) : fields[i] = TextField
                                THEN index(fields, TextField)
                                ELSE None

\* The payload of a Dialogue line: what follows the first colon, without
\* leading whitespace.
PayloadOf(raw_line) == lstrip(AfterColon(strip(raw_line)))

\* The positions of the first k commas of a payload.
FirstCommas(p, k) ==
    {i \in 1..Len(p) :
        p[i] = "," /\ Cardinality({j \in 1..(i - 1) : p[j] = ","}) < k}

\* The payload cut at the given comma positions.
CutAt(p, cuts) ==
    LET nth(n) == IF n = 0 THEN 0
                  ELSE IF n = Cardinality(cuts) + 1 THEN Len(p) + 1
                  ELSE CHOOSE i \in cuts : Cardinality({j \in cuts : j < i}) = n - 1
    IN [n \in 1..(Cardinality(cuts) + 1) |-> SubSeq(p, nth(n - 1) + 1, nth(n) - 1)]

JustReadDialogue ==
    pc \in {"ass", "parsed"} /\ doc # <<>> /\ IsDialogueLine(Last(doc))

\* C7: for a Dialogue line, with n the field count in force (10 when no
\* Format line has been seen), the payload is split at its first n-1
\* commas only, and the text selected is the part at the recorded Text
\* position when one is recorded and is smaller than the number of parts,
\* the last part otherwise.
C7_SplitAndSelect ==
    JustReadDialogue =>
        LET n == IF field_count = None THEN DefaultMaxSplit + 1 ELSE field_count
            p == PayloadOf(Last(doc))
        IN /\ parts = CutAt(p, FirstCommas(p, n - 1))
           /\ Len(parts) <= n
           /\ selected = IF text_index # None /\ text_index < Len(parts)
                         THEN parts[text_index + 1]
                         ELSE parts[Len(parts)]

\* A Dialogue line with more than nine commas was read before any Format
\* line: it has ten parts, the last one keeps the further commas and is the
\* text selected.
C7_Witness ==
    /\ JustReadDialogue
    /\ field_count = None
    /\ Len(parts) = DefaultMaxSplit + 1
    /\ \E i \in 1..Len(Last(parts)) : Last(parts)[i] = ","
    /\ selected = Last(parts)

NoTagLeft(s) ==
    ~\E i \in 1..Len(s) : \E j \in (i + 1)..Len(s) : s[i] = "{" /\ s[j] = "}"

NoEscapeLeft(s) ==
    ~\E i \in 1..(Len(s) - 1) : s[i] = "\\" /\ s[i + 1] \in {"N", "n", "h"}

\* C8: one DialogueLine is emitted per Dialogue line, in document order:
\* the selected text with the override tags removed first and the escapes
\* replaced by a space afterwards, so that it holds no "{" with a "}" after
\* it and none of \N, \n, \h; a text without tags and escapes is emitted
\* as it is.
C8_OnePerDialogueStripped ==
    pc \in {"ass", "parsed"} =>
        LET ds == SelectSeq(doc, IsDialogueLine)
        IN /\ Len(lines) = Len(ds)
           /\ \A k \in 1..Len(ds) :
                  LET t == PayloadOf(ds[k])
                  IN /\ NoTagLeft(lines[k])
                     /\ NoEscapeLeft(lines[k])
                     /\ Len(lines[k]) <= Len(t)
                     /\ NoTagLeft(t) /\ NoEscapeLeft(t) => lines[k] = t

\* An escape that became adjacent when the tag inside it was removed has
\* been replaced.
C8_Witness ==
    /\ pc = "parsed"
    /\ doc = <<DialogueOf(<<"\\", "{", "h", "}", "N">>)>>
    /\ lines = <<<<" ">>>>

(***************************************************************************)
(* iter_srt_lines                                                          *)
(***************************************************************************)
\* TIME_CODE_RE, item by item: "\\d" is a digit, "\\s+" a run of
\* whitespace, anything else the character itself. The pattern starts at
\* the start of the line (^) and has no end anchor.
StampPattern == <<"\\d", "\\d", ":", "\\d", "\\d", ":", "\\d", "\\d", ",", "\\d", "\\d", "\\d">>
TIME_CODE_RE == StampPattern \o <<"\\s+", "-", "-", ">", "\\s+">> \o StampPattern

RECURSIVE MatchItems(_, _, _)
MatchItems(pattern, s, anchored_end) ==
    IF pattern = <<>> THEN (anchored_end => s = <<>>)
    ELSE IF s = <<>> THEN FALSE
    ELSE IF Head(pattern) = "\\d"
         THEN IsDigit(Head(s)) /\ MatchItems(Tail(pattern), Tail(s), anchored_end)
    ELSE IF Head(pattern) = "\\s+"
         THEN /\ IsSpace(Head(s))
              /\ \/ MatchItems(pattern, Tail(s), anchored_end)
                 \/ MatchItems(Tail(pattern), Tail(s), anchored_end)
    ELSE Head(pattern) = Head(s) /\ MatchItems(Tail(pattern), Tail(s), anchored_end)

\* TIME_CODE_RE as if it ended in $: the whole line must match.
TIME_CODE_RE_fullmatch(line) == MatchItems(TIME_CODE_RE, line, TRUE)

\* TIME_CODE_RE.match(line): a match at the start of the line.
TIME_CODE_RE_match(line) == MatchItems(TIME_CODE_RE, line, FALSE)

\* line.isdigit()
isdigit(line) == line # <<>> /\ \A i \in 1..Len(line) : IsDigit(line[i])

\* Lines 45-55: the body of the loop, for one raw line.
srt_read(ls, raw_line) ==
    LET line == strip(raw_line)
    IN IF line = <<>> THEN ls
       ELSE IF isdigit(line) THEN ls
       ELSE IF TIME_CODE_RE_match(line) THEN ls
       ELSE Append(ls, line)

RECURSIVE SrtFold(_, _)
SrtFold(ls, content) ==
    IF content = <<>> THEN ls
    ELSE SrtFold(srt_read(ls, Head(content)), Tail(content))

\* iter_srt_lines on a file of the given lines.
iter_srt_lines(content) == SrtFold(<<>>, content)

(***************************************************************************)
(* The loop of iter_srt_lines, one raw line of the file per step           *)
(***************************************************************************)
SrtApply(raw_line) ==
    /\ lines' = srt_read(lines, raw_line)
    /\ doc' = Append(doc, raw_line)
    /\ UNCHANGED <<pc, assVars, countVars, shuffled, csv, mainVars>>

\* if not line: continue
SrtBlank(raw_line) ==
    /\ pc = "srt"
    /\ strip(raw_line) = <<>>
    /\ SrtApply(raw_line)

\* if line.isdigit(): continue
SrtIndex(raw_line) ==
    /\ pc = "srt"
    /\ isdigit(strip(raw_line))
    /\ SrtApply(raw_line)

\* if TIME_CODE_RE.match(line): continue
SrtTiming(raw_line) ==
    /\ pc = "srt"
    /\ strip(raw_line) # <<>>
    /\ ~isdigit(strip(raw_line))
    /\ TIME_CODE_RE_match(strip(raw_line))
    /\ SrtApply(raw_line)

\* lines.append(line)
SrtText(raw_line) ==
    /\ pc = "srt"
    /\ strip(raw_line) # <<>>
    /\ ~isdigit(strip(raw_line))
    /\ ~TIME_CODE_RE_match(strip(raw_line))
    /\ SrtApply(raw_line)

\* the file has ended: return lines
SrtReturn ==
    /\ pc = "srt"
    /\ pc' = "parsed"
    /\ UNCHANGED <<doc, lines, assVars, countVars, shuffled, csv, mainVars>>

InitSrt ==
    /\ Idle
    /\ pc = "srt"
    /\ lines = <<>>

(***************************************************************************)
(* Documents for iter_srt_lines: lines put together from time stamps,      *)
(* arrows, blanks, digits and letters; a document weighs one per line plus *)
(* one per piece.                                                          *)
(***************************************************************************)
MaxSrtWeight == 7

Stamp == <<"0", "0", ":", "0", "0", ":", "0", "1", ",", "0", "0", "0">>
Arrow == <<"-", "-", ">">>
SrtPieces == {Stamp, Arrow, <<" ">>, <<"4">>, <<"a">>}

RECURSIVE Flatten(_)
Flatten(ss) == IF ss = <<>> THEN <<>> ELSE Head(ss) \o Flatten(Tail(ss))

SrtLines(room) ==
    IF room < 1 THEN {}
    ELSE {Flatten(ss) : ss \in SeqsUpTo(SrtPieces, room - 1)}

RECURSIVE Pieces(_)
Pieces(line) ==
    IF line = <<>> THEN 0
    ELSE IF startswith(line, Stamp) THEN 1 + Pieces(SubSeq(line, Len(Stamp) + 1, Len(line)))
    ELSE IF startswith(line, Arrow) THEN 1 + Pieces(SubSeq(line, Len(Arrow) + 1, Len(line)))
    ELSE 1 + Pieces(Tail(line))

RECURSIVE SrtWeight(_)
SrtWeight(d) ==
    IF d = <<>> THEN 0 ELSE 1 + Pieces(Head(d)) + SrtWeight(Tail(d))

SrtInput == SrtLines(MaxSrtWeight - SrtWeight(doc))

NextSrt ==
    \/ \E raw_line \in SrtInput : SrtBlank(raw_line)
    \/ \E raw_line \in SrtInput : SrtIndex(raw_line)
    \/ \E raw_line \in SrtInput : SrtTiming(raw_line)
    \/ \E raw_line \in SrtInput : SrtText(raw_line)
    \/ SrtReturn

SpecSrt == InitSrt /\ [][NextSrt]_vars

(***************************************************************************)
(* Claims about iter_srt_lines                                             *)
(***************************************************************************)
\* HH:MM:SS,mmm
IsStamp(t) ==
    /\ Len(t) = 12
    /\ \A i \in {1, 2, 4, 5, 7, 8, 10, 11, 12} : IsDigit(t[i])
    /\ t[3] = ":" /\ t[6] = ":" /\ t[9] = ","

AllSpace(t) == \A i \in 1..Len(t) : IsSpace(t[i])

\* The line begins with HH:MM:SS,mmm --> HH:MM:SS,mmm, with a and b
\* whitespace characters before and after the arrow.
TimingUpTo(line, a, b) ==
    /\ Len(line) >= 27 + a + b
    /\ IsStamp(SubSeq(line, 1, 12))
    /\ AllSpace(SubSeq(line, 13, 12 + a))
    /\ SubSeq(line, 13 + a, 15 + a) = Arrow
    /\ AllSpace(SubSeq(line, 16 + a, 15 + a + b))
    /\ IsStamp(SubSeq(line, 16 + a + b, 27 + a + b))

BeginsWithTiming(line) ==
    \E a \in 1..Len(line) : \E b \in 1..Len(line) : TimingUpTo(line, a, b)

IsTimingLine(line) ==
    \E a \in 1..Len(line) : \E b \in 1..Len(line) :
        TimingUpTo(line, a, b) /\ Len(line) = 27 + a + b

Stripped(d) == [i \in 1..Len(d) |-> strip(d[i])]

IsCaption(line) ==
    line # <<>> /\ ~isdigit(line) /\ ~IsTimingLine(line)

IsCaptionStart(line) ==
    line # <<>> /\ ~isdigit(line) /\ ~BeginsWithTiming(line)

\* C9, as claimed: the lines emitted are, in document order, exactly the
\* lines that are non-blank, not solely digits and not a timing line of
\* the form HH:MM:SS,mmm --> HH:MM:SS,mmm; every other non-empty line is
\* emitted whatever it starts with.
C9_ExactTimingLinesDropped ==
    pc \in {"srt", "parsed"} => lines = SelectSeq(Stripped(doc), IsCaption)

\* C9, amended: the lines emitted are, in document order, exactly the
\* lines that are non-blank, not solely digits and do not begin with
\* HH:MM:SS,mmm --> HH:MM:SS,mmm; a line that begins so is dropped with
\* whatever follows the second time stamp.
C9_TimingPrefixDropped ==
    pc \in {"srt", "parsed"} => lines = SelectSeq(Stripped(doc), IsCaptionStart)

\* A line of a timing range followed by a letter was read and dropped.
C9_Witness ==
    /\ pc = "parsed"
    /\ doc = <<Stamp \o <<" ">> \o Arrow \o <<" ">> \o Stamp \o <<"a">>>>
    /\ lines = <<>>

(***************************************************************************)
(* Paths (pathlib)                                                         *)
(***************************************************************************)
\* A path is the sequence of its components; a component is a string.
name(path) == Last(path)
parent(path) == SubSeq(path, 1, Len(path) - 1)

\* name.rfind("."), counted from 1; 0 when the name holds no dot.
rfind_dot(nm) ==
    IF \E i \in 1..Len(nm) : nm[i] = "."
    THEN CHOOSE i \in 1..Len(nm) : nm[i] = "." /\ \A j \in (i + 1)..Len(nm) : nm[j] # "."
    ELSE 0

\* PurePath.suffix: from the last dot, unless the dot starts or ends the name.
suffix(path) ==
    LET nm == name(path)
        k == rfind_dot(nm)
    IN IF 1 < k /\ k < Len(nm) THEN SubSeq(nm, k, Len(nm)) ELSE <<>>

\* PurePath.stem: the name without its suffix.
stem(path) ==
    LET nm == name(path)
        k == rfind_dot(nm)
    IN IF 1 < k /\ k < Len(nm) THEN SubSeq(nm, 1, k - 1) ELSE nm

lower(t) == [i \in 1..Len(t) |-> Lower(t[i])]

CsvSuffix == <<".", "c", "s", "v">>
AssSuffix == <<".", "a", "s", "s">>
DefaultNameTail == <<"_", "w", "o", "r", "d", "_", "f", "r", "e", "q", "u", "e", "n", "c", "y", ".", "c", "s", "v">>

(***************************************************************************)
(* build_output_path, iter_subtitle_lines, main                            *)
(***************************************************************************)
\* build_output_path with the .csv test before the directory test.
build_output_path_csv_first(input, output, files) ==
    LET default_name == stem(input) \o DefaultNameTail
    IN IF output = NoPath THEN Append(parent(input), default_name)
       ELSE IF lower(suffix(output)) = CsvSuffix THEN output
       ELSE Append(output, default_name)

\* build_output_path(input_path, output); files.output is what the output
\* path is on disk.
build_output_path(input, output, files) ==
    LET default_name == stem(input) \o DefaultNameTail
    IN IF output = NoPath THEN Append(parent(input), default_name)
       ELSE IF files.output = "dir" THEN Append(output, default_name)
       ELSE IF lower(suffix(output)) = CsvSuffix THEN output
       ELSE Append(output, default_name)

\* iter_subtitle_lines(sub_path), for a file of the given lines.
iter_subtitle_lines(sub_path, content) ==
    IF lower(suffix(sub_path)) = AssSuffix
    THEN iter_ass_lines(content)
    ELSE iter_srt_lines(content)

\* The test of line 148 with is_file() left out.
input_exists(files) == files.input # "missing"

\* Line 148: input_path.exists() and input_path.is_file()
input_is_file(files) == files.input # "missing" /\ files.input = "file"

\* if not input_path.exists() or not input_path.is_file(): raise
MainCheckInput ==
    /\ pc = "main"
    /\ pc' = IF input_is_file(fs) THEN "build" ELSE "FileNotFoundError"
    /\ UNCHANGED <<doc, lines, assVars, countVars, shuffled, csv, mainVars>>

\* output_path = build_output_path(input_path, args.output)
MainBuildOutputPath ==
    /\ pc = "build"
    /\ output_path' = build_output_path(input_path, output_arg, fs)
    /\ pc' = "parse"
    /\ UNCHANGED <<doc, lines, assVars, countVars, shuffled, csv,
                   input_path, output_arg, fs>>

\* lines = iter_subtitle_lines(input_path)
MainIterSubtitleLines ==
    /\ pc = "parse"
    /\ doc' = fs.content
    /\ lines' = iter_subtitle_lines(input_path, fs.content)
    /\ pc' = "tally"
    /\ UNCHANGED <<assVars, countVars, shuffled, csv, mainVars>>

\* counts = count_words(lines)
MainCountWords ==
    /\ pc = "tally"
    /\ counts' = count_words(lines)
    /\ pc' = "write"
    /\ UNCHANGED <<doc, lines, assVars, li, words, shuffled, csv, mainVars>>

\* write_csv(counts, output_path): mkdir of the parent fails when the
\* output argument is an existing file that the path was built under.
MainWriteCsv ==
    /\ pc = "write"
    /\ IF fs.output = "file" /\ output_path # output_arg /\ output_arg # NoPath
       THEN /\ pc' = "FileExistsError"
            /\ UNCHANGED <<csv, fs>>
       ELSE /\ pc' = "done"
            /\ csv' = write_csv(counts)
            /\ fs' = [fs EXCEPT !.created = @ \cup {output_path}]
    /\ UNCHANGED <<doc, lines, assVars, countVars, shuffled,
                   input_path, output_arg, output_path>>

\* The subtitle files of the two scenarios: a line-timed one and a
\* field-delimited one.
SrtSample ==
    <<<<"1">>,
      <<"0", "0", ":", "0", "0", ":", "0", "1", ",", "0", "0", "0", " ", "-", "-", ">", " ", "0", "0", ":", "0", "0", ":", "0", "2", ",", "0", "0", "0">>,
      <<"H", "e", "l", "l", "o", " ", "w", "o", "r", "l", "d", "!">>,
      <<>>,
      <<"H", "e", "l", "l", "o", " ", "a", "g", "a", "i", "n", ".">>>>
AssSample ==
    <<<<"F", "o", "r", "m", "a", "t", ":", " ", "L", "a", "y", "e", "r", ",", " ", "S", "t", "a", "r", "t", ",", " ", "E", "n", "d", ",", " ", "T", "e", "x", "t">>,
      <<"D", "i", "a", "l", "o", "g", "u", "e", ":", " ", "0", ",", "0", ":", "0", "0", ":", "0", "1", ".", "0", "0", ",", "0", ":", "0", "0", ":", "0", "2", ".", "0", "0", ",", "H", "i", ",", " ", "{", "\\", "p", "o", "s", "(", "1", ",", "2", ")", "}", "t", "h", "e", "r", "e", "\\", "N", "f", "r", "i", "e", "n", "d">>>>

InputNames == {<<"a", ".", "s", "r", "t">>, <<"a", ".", "a", "s", "s">>, <<"a", ".", "A", "S", "S">>, <<"a">>, <<".", "a", "s", "s">>}
OutputNames == {<<"o", "u", "t">>,
                <<"a", ".", ".", "c", "s", "v">>,
                <<"o", "u", "t", ".", "c", "s", "v">>,
                <<"O", "U", "T", ".", "C", "S", "V">>,
                <<".", "c", "s", "v">>,
                <<"o", "u", "t", ".", "t", "x", "t">>,
                <<"c", "s", "v">>}
Kinds == {"missing", "file", "dir"}

InitMain ==
    /\ pc = "main"
    /\ doc = <<>>
    /\ lines = <<>>
    /\ text_index = None
    /\ field_count = None
    /\ parts = <<>>
    /\ selected = <<>>
    /\ li = 0
    /\ words = <<>>
    /\ counts = EmptyCounter
    /\ shuffled = [order |-> <<>>, counts |-> EmptyCounter]
    /\ csv = <<>>
    /\ input_path \in {<<Chr("d"), nm>> : nm \in InputNames}
    /\ output_arg \in {NoPath} \cup {<<Chr("e"), nm>> : nm \in OutputNames}
    /\ output_path = NoPath
    /\ fs \in [input : Kinds,
               output : IF output_arg = NoPath THEN {"missing"} ELSE Kinds,
               content : {SrtSample, AssSample},
               created : {{}}]

Next ==
    \/ MainCheckInput
    \/ MainBuildOutputPath
    \/ MainIterSubtitleLines
    \/ MainCountWords
    \/ MainWriteCsv

Spec == InitMain /\ [][Next]_vars

(***************************************************************************)
(* Claims about main and build_output_path                                 *)
(***************************************************************************)
\* C4: when the input path does not exist or is not a regular file, the
\* run ends in FileNotFoundError before any parser, any counting and any
\* output step: nothing is parsed, counted, resolved, created or written.
C4_MissingInputAborts ==
    fs.input # "file" =>
        /\ pc \in {"main", "FileNotFoundError"}
        /\ doc = <<>>
        /\ lines = <<>>
        /\ counts = EmptyCounter
        /\ output_path = NoPath
        /\ csv = <<>>
        /\ fs.created = {}

\* The run has ended in FileNotFoundError for an input path that is a
\* directory.
C4_Witness ==
    pc = "FileNotFoundError" /\ fs.input = "dir"

Resolved == pc \in {"parse", "tally", "write", "done", "FileExistsError"}

DefaultName == stem(input_path) \o DefaultNameTail

EndsInCsv(nm) ==
    Len(nm) >= 4 /\ SubSeq(nm, Len(nm) - 3, Len(nm)) = CsvSuffix

\* C5, as claimed: without a destination the result is the default name
\* beside the input; whenever the destination is a directory it is the
\* default name inside it; whenever the destination ends in .csv it is the
\* destination itself.
C5_AsSpecified ==
    Resolved =>
        /\ output_arg = NoPath =>
               output_path = Append(parent(input_path), DefaultName)
        /\ output_arg # NoPath /\ fs.output = "dir" =>
               output_path = Append(output_arg, DefaultName)
        /\ output_arg # NoPath /\ EndsInCsv(name(output_arg)) =>
               output_path = output_arg

\* C5, amended: as claimed, but the destination is the result itself only
\* when it is not an existing directory and its name ends in .csv after at
\* least one character that is not a dot.
C5_DirectoryBeforeCsv ==
    Resolved =>
        /\ output_arg = NoPath =>
               output_path = Append(parent(input_path), DefaultName)
        /\ output_arg # NoPath /\ fs.output = "dir" =>
               output_path = Append(output_arg, DefaultName)
        /\ /\ output_arg # NoPath
           /\ fs.output # "dir"
           /\ EndsInCsv(name(output_arg))
           /\ \E i \in 1..(Len(name(output_arg)) - 4) : name(output_arg)[i] # "."
           => output_path = output_arg

\* The destination is a directory whose name ends in .csv, and the result
\* is the default name inside it.
C5_Witness ==
    /\ Resolved
    /\ output_arg # NoPath
    /\ fs.output = "dir"
    /\ EndsInCsv(name(output_arg))
    /\ Len(name(output_arg)) > 4
    /\ output_path = Append(output_arg, DefaultName)

====
